---- MODULE Spec2Model ----
(***************************************************************************)
(* Model of the AHP validator service (src/app.py): the numeric core       *)
(* (geometric_mean_method, power_method, calculate_consistency,            *)
(* validate_with_reference) and the two request handlers that compare a    *)
(* candidate result against it (validate, validate_batch).                 *)
(*                                                                         *)
(* Numbers.  The code computes in IEEE doubles (numpy).  Here a double is  *)
(* a record [k, v]: k = "num" with v the value in units of 1/Scale         *)
(* (fixed point, quotients truncated), k = "nan" (v = 0), or k = "inf"     *)
(* with v = 1 or -1.  numpy's division, product, power, max and the        *)
(* Python comparisons are modelled with their nan / inf outcomes, because  *)
(* the code itself never checks its inputs.  Matrix entries are integers   *)
(* in units of 1/MScale (6 is 1.0, 3 is 1/2, 2 is 1/3, 18 is 3.0).         *)
(***************************************************************************)
EXTENDS Integers, Sequences, FiniteSets, TLC

VARIABLES
    pc,         \* where the modelled call or handler stands
    req,        \* the request body (request.json)
    resp,       \* the HTTP response: [status, body]
    calls,      \* ghost: the numeric-core functions the handler has entered
    verdict,    \* /validate: the comparison the handler computed (its locals)
    idx,        \* /validate-batch: position of the for loop in `matrices`
    results,    \* /validate-batch: the `results` list
    all_valid,  \* /validate-batch: the `all_valid` flag
    arg,        \* core specifications: the arguments of the call
    ret,        \* core specifications: the value returned (or the exception)
    v,          \* power_method: v
    v_new,      \* power_method: v_new
    iters       \* power_method: passes of the for loop completed

vars == <<pc, req, resp, calls, verdict, idx, results, all_valid, arg, ret, v, v_new, iters>>

svcVars == <<req, resp, calls, verdict, idx, results, all_valid>>

coreVars == <<arg, ret, v, v_new, iters>>

---------------------------------------------------------------------------
(* Fixed-point doubles                                                     *)

\* Units per 1.0 of a weight, eigenvalue, CI or CR.
Scale == 10000

\* Units per 1.0 of a matrix entry.
MScale == 6

\* Extra factor under the n-th root, so that the root keeps three digits.
GScale == 70

\* Largest root the 32-bit integers of the checker can cube.
RootMax == 1289

Num(x) == [k |-> "num", v |-> x]

NaN == [k |-> "nan", v |-> 0]

Inf(s) == [k |-> "inf", v |-> s]

None == [k |-> "none", v |-> 0]

Abs(x) == IF x < 0 THEN -x ELSE x

Sgn(x) == IF x > 0 THEN 1 ELSE IF x < 0 THEN -1 ELSE 0

\* Sign of a double used as a divisor or factor; zero counts as +0.
SgnZ(a) == IF a.v < 0 THEN -1 ELSE 1

IsNaN(a) == a.k = "nan"

IsFinite(a) == a.k = "num"

FNeg(a) == [k |-> a.k, v |-> -a.v]

\* a + b
FAdd(a, b) ==
    IF IsNaN(a) \/ IsNaN(b) THEN NaN
    ELSE IF a.k = "inf" THEN (IF b.k = "inf" /\ b.v # a.v THEN NaN ELSE a)
    ELSE IF b.k = "inf" THEN b
    ELSE Num(a.v + b.v)

\* a - b
FSub(a, b) == FAdd(a, FNeg(b))

\* abs(a), np.abs(a)
FAbs(a) == [k |-> a.k, v |-> Abs(a.v)]

\* a < b; False whenever a nan is involved
FLess(a, b) ==
    IF IsNaN(a) \/ IsNaN(b) THEN FALSE
    ELSE IF a.k = "inf" THEN a.v < 0 /\ ~(b.k = "inf" /\ b.v < 0)
    ELSE IF b.k = "inf" THEN b.v > 0
    ELSE a.v < b.v

\* c * a for a finite matrix entry c (an integer) and a double a
FScale(c, a) ==
    IF IsNaN(a) THEN NaN
    ELSE IF a.k = "inf" THEN (IF c = 0 THEN NaN ELSE Inf(Sgn(c) * a.v))
    ELSE Num(c * a.v)

\* a / b, the quotient taken as (a * m) / (b * d) to bring it to the scale
\* of the result; x/0 is inf (nan for 0/0) as numpy computes it
FDiv(a, b, m, d) ==
    IF IsNaN(a) \/ IsNaN(b) THEN NaN
    ELSE IF a.k = "inf" THEN (IF b.k = "inf" THEN NaN ELSE Inf(a.v * SgnZ(b)))
    ELSE IF b.k = "inf" THEN Num(0)
    ELSE IF b.v = 0 THEN (IF a.v = 0 THEN NaN ELSE Inf(Sgn(a.v)))
    ELSE Num(Sgn(a.v) * Sgn(b.v) * ((Abs(a.v) * m) \div (Abs(b.v) * d)))

\* x < 1/den for a double x: the tolerance tests of the code
BelowTol(x, den) ==
    IF ~IsFinite(x) THEN FLess(x, Num(0))
    ELSE IF den >= Scale THEN x.v * (den \div Scale) < 1
    ELSE x.v < Scale \div den

RECURSIVE SeqSum(_, _)
\* np.sum(s) from the i-th entry on
SeqSum(s, i) == IF i > Len(s) THEN Num(0) ELSE FAdd(s[i], SeqSum(s, i + 1))

\* np.sum
NpSum(s) == SeqSum(s, 1)

\* np.max: a nan anywhere makes the maximum nan
NpMax(s) ==
    IF \E i \in DOMAIN s : IsNaN(s[i]) THEN NaN
    ELSE CHOOSE x \in {s[i] : i \in DOMAIN s} :
             \A i \in DOMAIN s : ~FLess(x, s[i])

RECURSIVE PyMaxFrom(_, _, _)
\* Python's max(): keeps the running maximum m and replaces it only when
\* an item compares greater, so a nan is kept or skipped by position
PyMaxFrom(s, i, m) ==
    IF i > Len(s) THEN m
    ELSE PyMaxFrom(s, i + 1, IF FLess(m, s[i]) THEN s[i] ELSE m)

PyMax(s) == PyMaxFrom(s, 2, s[1])

\* zip(a, b): pairs up to the shorter length
ZipLen(a, b) == IF Len(a) < Len(b) THEN Len(a) ELSE Len(b)

RECURSIVE IntProd(_, _)
\* np.prod of a row of matrix entries, from the i-th entry on
IntProd(row, i) == IF i > Len(row) THEN 1 ELSE row[i] * IntProd(row, i + 1)

RECURSIVE Bisect(_, _, _, _)
\* the largest r in lo..hi with r^n <= x
Bisect(n, x, lo, hi) ==
    IF lo = hi THEN lo
    ELSE LET mid == (lo + hi + 1) \div 2
         IN  IF mid ^ n <= x THEN Bisect(n, x, mid, hi)
                             ELSE Bisect(n, x, lo, mid - 1)

\* np.power(p, 1/n) of a row product p: nan for a negative p unless the
\* exponent is exactly 1
NpRoot(p, n) ==
    IF n = 1 THEN Num(p * GScale)
    ELSE IF p < 0 THEN NaN
    ELSE Num(Bisect(n, p * GScale ^ n, 0, RootMax))

---------------------------------------------------------------------------
(* Numeric core                                                            *)

\* Random Index table, in hundredths
RANDOM_INDEX == <<0, 0, 58, 90, 112, 124, 132, 141, 145, 149, 152, 154, 156, 158, 159>>

\* Fallback of RANDOM_INDEX.get(n, 1.49), in hundredths
RI_DEFAULT == 149

\* np.dot(matrix, v) needs as many columns in every row as v has entries
Aligned(matrix, n) == \A i \in DOMAIN matrix : Len(matrix[i]) = n

RECURSIVE RowDot(_, _, _)
RowDot(row, vec, j) ==
    IF j > Len(row) THEN Num(0)
    ELSE FAdd(FScale(row[j], vec[j]), RowDot(row, vec, j + 1))

\* np.dot(matrix, vec), in units of 1/(MScale*Scale)
Dot(matrix, vec) == [i \in DOMAIN matrix |-> RowDot(matrix[i], vec, 1)]

\* geometric_mean_method(matrix): [raised, weights]
geometric_mean_method(matrix) ==
    LET n == Len(matrix)
    IN  IF n = 0 THEN [raised |-> "AxisError", weights |-> <<>>]
        ELSE LET row_products == [i \in 1..n |-> IntProd(matrix[i], 1)]
                 geometric_means == [i \in 1..n |-> NpRoot(row_products[i], n)]
                 total == NpSum(geometric_means)
             IN  [raised |-> "none",
                  weights |-> [i \in 1..n |-> FDiv(geometric_means[i], total, Scale, 1)]]

\* power_method defaults: max_iter=100, tolerance=1e-6 (as 1/PM_TOL_DEN)
MAX_ITER == 100

PM_TOL_DEN == 1000000

\* Vetor inicial: np.ones(n) / n
Uniform(n) == [i \in 1..n |-> Num(Scale \div n)]

\* one pass of the loop body: v_new = dot(matrix, v); v_new = v_new / sum(v_new)
PMStep(matrix, vec) ==
    LET x == Dot(matrix, vec)
        s == NpSum(x)
    IN  [i \in DOMAIN x |-> FDiv(x[i], s, Scale, 1)]

\* Variant of PMConverged: np.min in place of np.max.
PMConverged_min(vnew, vec) ==
    \E i \in DOMAIN vnew :
        LET d == FAbs(FSub(vnew[i], vec[i]))
        IN  /\ \A j \in DOMAIN vnew : ~FLess(FAbs(FSub(vnew[j], vec[j])), d)
            /\ BelowTol(d, PM_TOL_DEN)

\* np.max(np.abs(v_new - v)) < tolerance
PMConverged(vnew, vec) ==
    BelowTol(NpMax([i \in DOMAIN vnew |-> FAbs(FSub(vnew[i], vec[i]))]), PM_TOL_DEN)

\* np.dot raises ValueError when the matrix is not n x n; an empty matrix
\* ends in ValueError as well (np.max of a zero-size array)
PMRaises(matrix) == Len(matrix) = 0 \/ ~Aligned(matrix, Len(matrix))

\* the body of `for _ in range(max_iter)` on the loop's variables
\* [v, v_new, done]: multiply, renormalise, break if converged, else v = v_new
PMBody(matrix, st) ==
    IF st.done THEN st
    ELSE LET vnew == PMStep(matrix, st.v)
         IN  IF PMConverged(vnew, st.v)
                THEN [v |-> st.v, v_new |-> vnew, done |-> TRUE]
                ELSE [v |-> vnew, v_new |-> vnew, done |-> FALSE]

RECURSIVE PMPasses(_, _, _)
\* at most n passes of the loop, none after the break; composed by halves
\* so that the evaluation stays shallow
PMPasses(matrix, st, n) ==
    IF n = 0 THEN st
    ELSE IF n = 1 THEN PMBody(matrix, st)
    ELSE LET half == PMPasses(matrix, st, n \div 2)
         IN  IF half.done THEN half
             ELSE PMPasses(matrix, half, n - n \div 2)

\* power_method(matrix): [raised, weights]
power_method(matrix) ==
    IF PMRaises(matrix) THEN [raised |-> "ValueError", weights |-> <<>>]
    ELSE IF MAX_ITER = 0 THEN [raised |-> "UnboundLocalError", weights |-> <<>>]
    ELSE [raised |-> "none",
          weights |-> PMPasses(matrix,
                               [v |-> Uniform(Len(matrix)), v_new |-> <<>>, done |-> FALSE],
                               MAX_ITER).v_new]

\* RANDOM_INDEX.get(n, 1.49)
RandomIndex(n) == IF n \in DOMAIN RANDOM_INDEX THEN RANDOM_INDEX[n] ELSE RI_DEFAULT

\* Variant of SmallN: n < 2.
SmallN_strict(n) == n < 2

\* if n <= 2
SmallN(n) == n <= 2

\* calculate_consistency(matrix, weights): the returned dict, with the
\* exception it ends in (np.dot on misaligned shapes) and, as ghost
\* fields, whether RANDOM_INDEX was read and which divisors were used
calculate_consistency(matrix, weights) ==
    LET n == Len(matrix)
    IN  IF ~Aligned(matrix, Len(weights)) THEN
            [raised |-> "ValueError", lambda_max |-> None, ci |-> None, cr |-> None,
             ri_read |-> FALSE, divisors |-> {}]
        ELSE
            LET weighted_sum == Dot(matrix, weights)
                lambda_values == [i \in 1..n |-> FDiv(weighted_sum[i], weights[i], Scale, MScale)]
                lambda_max == FDiv(NpSum(lambda_values), Num(n), 1, 1)
            IN  IF SmallN(n) THEN
                    [raised |-> "none", lambda_max |-> lambda_max, ci |-> Num(0), cr |-> Num(0),
                     ri_read |-> FALSE, divisors |-> {"weights"}]
                ELSE
                    LET ci == FDiv(FSub(lambda_max, Num(n * Scale)), Num(n - 1), 1, 1)
                        ri == RandomIndex(n)
                    IN  [raised |-> "none", lambda_max |-> lambda_max, ci |-> ci,
                         cr |-> IF ri > 0 THEN FDiv(ci, Num(ri), 100, 1) ELSE Num(0),
                         ri_read |-> TRUE,
                         divisors |-> {"weights", "n-1"} \cup (IF ri > 0 THEN {"ri"} ELSE {})]

\* methods_agree threshold 0.01, as 1/AGREE_DEN
AGREE_DEN == 100

\* validate_with_reference(matrix, items): the returned dict, the exception
\* that ended it, and the core functions that were entered (ghost)
validate_with_reference(matrix) ==
    LET gm == geometric_mean_method(matrix)
    IN  IF gm.raised # "none" THEN
            [raised |-> gm.raised, entered |-> {"geometric_mean_method"},
             weights |-> <<>>, weights_power_method |-> <<>>,
             lambda_max |-> None, ci |-> None, cr |-> None, methods_agree |-> FALSE]
        ELSE
            LET pm == power_method(matrix)
            IN  IF pm.raised # "none" THEN
                    [raised |-> pm.raised,
                     entered |-> {"geometric_mean_method", "power_method"},
                     weights |-> <<>>, weights_power_method |-> <<>>,
                     lambda_max |-> None, ci |-> None, cr |-> None, methods_agree |-> FALSE]
                ELSE
                    LET consistency == calculate_consistency(matrix, gm.weights)
                        method_diff == NpMax([i \in DOMAIN gm.weights |->
                                               FAbs(FSub(gm.weights[i], pm.weights[i]))])
                    IN  [raised |-> consistency.raised,
                         entered |-> {"geometric_mean_method", "power_method",
                                      "calculate_consistency"},
                         weights |-> gm.weights, weights_power_method |-> pm.weights,
                         lambda_max |-> consistency.lambda_max,
                         ci |-> consistency.ci, cr |-> consistency.cr,
                         methods_agree |-> BelowTol(method_diff, AGREE_DEN)]

---------------------------------------------------------------------------
(* Request handlers                                                        *)

\* tolerance = 0.001 in validate, as 1/TOL_DEN
TOL_DEN == 1000

\* the literal 0.001 of validate_batch, as 1/BATCH_TOL_DEN
BATCH_TOL_DEN == 1000

\* Variant of AbsDiff: abs(a + b).
AbsDiff_plus(a, b) == FAbs(FAdd(a, b))

\* abs(a - b)
AbsDiff(a, b) == FAbs(FSub(a, b))

\* Python truth value of a number: only 0 is false (nan is true)
Truthy(x) == ~(x.k = "num" /\ x.v = 0)

\* [abs(a - b) for a, b in zip(your_weights, sdk_weights)]
DiffWeights(your_weights, sdk_weights) ==
    [i \in 1..ZipLen(your_weights, sdk_weights) |-> AbsDiff(your_weights[i], sdk_weights[i])]

\* validate, "Calcular diferencas" and "Determinar se validacao passou":
\* the handler's locals after the comparison
ValidateCompare(data, ref) ==
    LET diff_weights == IF Len(data.your_weights) > 0
                           THEN DiffWeights(data.your_weights, ref.weights) ELSE <<>>
        max_diff_weights == IF Len(data.your_weights) > 0 /\ Len(diff_weights) > 0
                               THEN PyMax(diff_weights) ELSE Num(0)
        diff_cr == IF Truthy(data.your_cr) THEN AbsDiff(data.your_cr, ref.cr) ELSE Num(0)
        diff_lambda == IF Truthy(data.your_lambda)
                          THEN AbsDiff(data.your_lambda, ref.lambda_max) ELSE Num(0)
        weights_valid == BelowTol(max_diff_weights, TOL_DEN)
        cr_valid == BelowTol(diff_cr, TOL_DEN)
    IN  [sdk_weights |-> ref.weights, sdk_cr |-> ref.cr, sdk_lambda |-> ref.lambda_max,
         diff_weights |-> diff_weights, max_diff_weights |-> max_diff_weights,
         diff_cr |-> diff_cr, diff_lambda |-> diff_lambda,
         weights_valid |-> weights_valid, cr_valid |-> cr_valid,
         is_valid |-> weights_valid /\ cr_valid]

ErrorBody(msg) == [success |-> FALSE, error |-> msg]

\* validate, from `response = {...}` to the return: jsonify(response), or
\* the except clause when jsonify raises
ValidateRespond(jsonify_ok, ref_result, cmp) ==
    [resp |-> IF jsonify_ok
                 THEN [status |-> 200,
                       body |-> [success |-> TRUE,
                                 validation |-> [is_valid |-> cmp.is_valid,
                                                 weights_valid |-> cmp.weights_valid,
                                                 cr_valid |-> cmp.cr_valid],
                                 reference |-> [weights |-> cmp.sdk_weights,
                                                cr |-> cmp.sdk_cr,
                                                lambda_max |-> cmp.sdk_lambda,
                                                methods_agree |-> ref_result.methods_agree],
                                 differences |-> [weights |-> cmp.diff_weights,
                                                  max_weight_diff |-> cmp.max_diff_weights,
                                                  cr_diff |-> cmp.diff_cr,
                                                  lambda_diff |-> cmp.diff_lambda]]]
                 ELSE [status |-> 500, body |-> ErrorBody("TypeError")],
     calls |-> ref_result.entered, verdict |-> cmp]

\* validate, after `ref_result = validate_with_reference(matrix, items)`:
\* an exception of the core goes to the except clause
ValidateAfterReference(data, jsonify_ok, ref_result) ==
    IF ref_result.raised # "none" THEN
        [resp |-> [status |-> 500, body |-> ErrorBody(ref_result.raised)],
         calls |-> ref_result.entered, verdict |-> None]
    ELSE ValidateRespond(jsonify_ok, ref_result, ValidateCompare(data, ref_result))

\* validate(): the response, the core functions entered and the locals of
\* the comparison.  ahpy is taken as not installed (AHPY_AVAILABLE False;
\* its result never enters the verdict).  `jsonify_ok` is whether the JSON
\* provider of the deployment serialises the numpy bool in
\* reference.methods_agree; if not, jsonify raises inside the try block.
validate(data, jsonify_ok) ==
    IF ~data.data THEN
        [resp |-> [status |-> 400, body |-> ErrorBody("No data provided")],
         calls |-> {}, verdict |-> None]
    ELSE IF Len(data.matrix) = 0 \/ Len(data.items) = 0 THEN
        [resp |-> [status |-> 400, body |-> ErrorBody("Matrix and items are required")],
         calls |-> {}, verdict |-> None]
    ELSE ValidateAfterReference(data, jsonify_ok, validate_with_reference(data.matrix))

\* validate_batch: max(diff_weights) raises ValueError on an empty list
BatchCompareRaises(item, ref) ==
    Len(item.your_weights) > 0 /\ ZipLen(item.your_weights, ref.weights) = 0

\* validate_batch, "Comparar": the row appended to `results`
BatchCompare(item, ref) ==
    LET diff_weights == IF Len(item.your_weights) > 0
                           THEN DiffWeights(item.your_weights, ref.weights) ELSE <<>>
        max_diff == IF Len(diff_weights) > 0 THEN PyMax(diff_weights) ELSE Num(0)
        diff_cr == AbsDiff(item.your_cr, ref.cr)
    IN  [name |-> item.name,
         is_valid |-> BelowTol(max_diff, BATCH_TOL_DEN) /\ BelowTol(diff_cr, BATCH_TOL_DEN),
         your_weights |-> item.your_weights, sdk_weights |-> ref.weights,
         your_cr |-> item.your_cr, sdk_cr |-> ref.cr,
         max_weight_diff |-> max_diff, cr_diff |-> diff_cr]

\* Variant of NextAllValid: all_valid = is_valid (the flag is overwritten).
NextAllValid_overwrite(flag, is_valid) == is_valid

\* if not is_valid: all_valid = False
NextAllValid(flag, is_valid) == IF ~is_valid THEN FALSE ELSE flag

\* sum(1 for r in results if r['is_valid'])
Passed(rs) == Cardinality({i \in DOMAIN rs : rs[i].is_valid})

\* sum(1 for r in results if not r['is_valid'])
Failed(rs) == Cardinality({i \in DOMAIN rs : ~rs[i].is_valid})

\* the outcome of one pass of the batch loop on `item`
BatchAfterReference(item, ref_result) ==
    IF ref_result.raised # "none"
       THEN [raised |-> ref_result.raised, entered |-> ref_result.entered, row |-> None]
       ELSE IF BatchCompareRaises(item, ref_result)
       THEN [raised |-> "ValueError", entered |-> ref_result.entered, row |-> None]
       ELSE [raised |-> "none", entered |-> ref_result.entered,
             row |-> BatchCompare(item, ref_result)]

\* one pass of `for item in matrices`
BatchItemOutcome(item) == BatchAfterReference(item, validate_with_reference(item.matrix))

---------------------------------------------------------------------------
(* Inputs of the core specifications                                       *)

\* Entries of the generated matrices: 0, 1/2, 1, 2, 3 and -1
Entries == {0, 3, 6, 12, 18, -6}

\* Non-negative entries (power iteration stays inside [0, 1])
PosEntries == {0, 3, 6, 12, 18}

Mat1(S) == {<< <<a>> >> : a \in S}

Mat2(S) == {<< <<a, b>>, <<c, d>> >> : a \in S, b \in S, c \in S, d \in S}

\* [[1,2,3],[1/2,1,3],[1/3,1/3,1]], CR > 0
M3i == << <<6, 12, 18>>, <<3, 6, 18>>, <<2, 2, 6>> >>

\* [[1,1,2],[1,1,2],[1/2,1/2,1]], perfectly consistent
M3c == << <<6, 6, 12>>, <<6, 6, 12>>, <<3, 3, 6>> >>

\* [[1,0,1],[1,1,1],[1,1,1]], a zero entry
M3z == << <<6, 0, 6>>, <<6, 6, 6>>, <<6, 6, 6>> >>

\* 2x3 and 3x2, not square
M23 == << <<6, 12, 18>>, <<3, 6, 12>> >>

M32 == << <<6, 12>>, <<3, 6>>, <<2, 3>> >>

\* [[1,-1],[-1,1]]
M2n == << <<6, -6>>, <<-6, 6>> >>

GMInputs == Mat1(Entries) \cup Mat2(Entries) \cup {<<>>, M3i, M3c, M3z, M23, M32}

---------------------------------------------------------------------------
(* SpecGM: geometric_mean_method applied to each input                     *)

InitGM ==
    /\ pc = "gm"
    /\ arg \in {[matrix |-> m] : m \in GMInputs}
    /\ ret = None
    /\ v = <<>> /\ v_new = <<>> /\ iters = 0
    /\ req = None /\ resp = None /\ calls = {} /\ verdict = None
    /\ idx = 0 /\ results = <<>> /\ all_valid = TRUE

GMCall ==
    /\ pc = "gm"
    /\ ret' = geometric_mean_method(arg.matrix)
    /\ pc' = "gm_done"
    /\ UNCHANGED <<arg, v, v_new, iters>>
    /\ UNCHANGED svcVars

NextGM == GMCall

SpecGM == InitGM /\ [][NextGM]_vars

---------------------------------------------------------------------------
(* SpecPM: power_method, one pass of its loop per step                     *)

PMInputs == Mat1(Entries) \cup Mat2(PosEntries) \cup {<<>>, M2n, M3i, M3c, M3z, M23, M32}

InitPM ==
    /\ pc = "pm_loop"
    /\ arg \in {[matrix |-> m] : m \in PMInputs}
    /\ ret = None
    /\ v = Uniform(Len(arg.matrix)) /\ v_new = <<>> /\ iters = 0
    /\ req = None /\ resp = None /\ calls = {} /\ verdict = None
    /\ idx = 0 /\ results = <<>> /\ all_valid = TRUE

\* np.dot raises on the first pass
PMRaiseGuard == pc = "pm_loop" /\ iters = 0 /\ PMRaises(arg.matrix)

PMRaise ==
    /\ PMRaiseGuard
    /\ ret' = [raised |-> "ValueError", weights |-> <<>>]
    /\ pc' = "pm_raised"
    /\ UNCHANGED <<arg, v, v_new, iters>>
    /\ UNCHANGED svcVars

\* one pass of `for _ in range(max_iter)`: multiply, renormalise, test, v = v_new
PMPassGuard == pc = "pm_loop" /\ iters < MAX_ITER /\ ~PMRaises(arg.matrix)

PMPass ==
    /\ PMPassGuard
    /\ \E st \in {PMBody(arg.matrix, [v |-> v, v_new |-> v_new, done |-> FALSE])} :
          /\ v_new' = st.v_new
          /\ v' = st.v
          /\ pc' = IF st.done THEN "pm_break" ELSE "pm_loop"
    /\ iters' = iters + 1
    /\ UNCHANGED <<arg, ret>>
    /\ UNCHANGED svcVars

\* return v_new, after the break or when range(max_iter) is exhausted
PMReturnGuard == pc = "pm_break" \/ (pc = "pm_loop" /\ iters >= MAX_ITER)

PMReturn ==
    /\ PMReturnGuard
    /\ ret' = IF iters = 0 THEN [raised |-> "UnboundLocalError", weights |-> <<>>]
                           ELSE [raised |-> "none", weights |-> v_new]
    /\ pc' = "pm_done"
    /\ UNCHANGED <<arg, v, v_new, iters>>
    /\ UNCHANGED svcVars

NextPM == PMRaise \/ PMPass \/ PMReturn

SpecPM == InitPM /\ [][NextPM]_vars

\* The stepwise loop and the operator used by the handlers agree.
PMLoopAgrees == pc \in {"pm_done", "pm_raised"} => ret = power_method(arg.matrix)

---------------------------------------------------------------------------
(* SpecCC: calculate_consistency applied to a matrix and a weight vector   *)

\* Candidate weights of the consistency inputs (their sum stays <= 1.0)
CCWeights1 == {0, 5000, 10000}

CCWeights2 == {0, 2500, 5000}

CCInputs ==
    {[matrix |-> m, weights |-> << Num(a) >>] : m \in Mat1(Entries), a \in CCWeights1}
    \cup {[matrix |-> m, weights |-> << Num(a), Num(b) >>] :
             m \in Mat2(Entries), a \in CCWeights2, b \in CCWeights2}
    \cup {[matrix |-> m, weights |-> geometric_mean_method(m).weights] : m \in {M3i, M3c, M3z}}

InitCC ==
    /\ pc = "cc"
    /\ arg \in CCInputs
    /\ ret = None
    /\ v = <<>> /\ v_new = <<>> /\ iters = 0
    /\ req = None /\ resp = None /\ calls = {} /\ verdict = None
    /\ idx = 0 /\ results = <<>> /\ all_valid = TRUE

CCCall ==
    /\ pc = "cc"
    /\ ret' = calculate_consistency(arg.matrix, arg.weights)
    /\ pc' = "cc_done"
    /\ UNCHANGED <<arg, v, v_new, iters>>
    /\ UNCHANGED svcVars

NextCC == CCCall

SpecCC == InitCC /\ [][NextCC]_vars

---------------------------------------------------------------------------
(* Spec: one request to /validate or /validate-batch                       *)
(* The service keeps nothing between requests, so a behaviour is one       *)
(* request from arrival to response.                                       *)

\* Longest batch
MaxBatch == 2

\* [[1]], [[1,2],[1/2,1]], [[1,0],[1,1]]
M1 == << <<6>> >>

M2c == << <<6, 12>>, <<3, 6>> >>

M2z == << <<6, 0>>, <<6, 6>> >>

SvcMatrices == {<<>>, M1, M2c, M2z, M2n, M3i, M3c, M3z, M23, M32}

BatchMatrices == {<<>>, M2c, M3i, M23}

\* 0.001 in units of 1/Scale
TolUnits == Scale \div TOL_DEN

\* A JSON number is finite: where the reference value is nan or inf (or
\* there is none) the candidate is built from the uniform vector and 0.
BaseWeights(m, r) ==
    IF r.raised # "none" THEN Uniform(Len(m))
    ELSE [i \in DOMAIN r.weights |->
             IF IsFinite(r.weights[i]) THEN r.weights[i] ELSE Num(Scale \div Len(m))]

BaseCR(r) == IF r.raised = "none" /\ IsFinite(r.cr) THEN r.cr ELSE Num(0)

Bump(w, d) == IF Len(w) = 0 THEN w ELSE [w EXCEPT ![1] = Num(@.v + d)]

\* Candidate weight vectors sent with matrix m, built on the vector `base`
WeightKinds == {"none", "exact", "near", "off", "short", "long"}

CandWeights(m, kind, base) ==
    CASE kind = "none"  -> <<>>
      [] kind = "exact" -> base
      [] kind = "near"  -> Bump(base, TolUnits - 1)
      [] kind = "off"   -> Bump(base, TolUnits)
      [] kind = "short" -> SubSeq(base, 1, Len(m) - 1)
      [] kind = "long"  -> Append(base, Num(0))

\* Candidate CR sent with matrix m ("absent": the key is missing and
\* data.get('your_cr', 0) supplies 0), built on the value `base`
CRKinds == {"absent", "zero", "exact", "near", "off"}

CandCR(kind, base) ==
    CASE kind \in {"absent", "zero"} -> Num(0)
      [] kind = "exact" -> base
      [] kind = "near"  -> Num(base.v + TolUnits - 1)
      [] kind = "off"   -> Num(base.v + TolUnits)

Labels(n) == [i \in 1..n |-> i]

\* a request body whose candidate is placed around the reference result r
ItemAround(m, items, wk, ck, r) ==
    [matrix |-> m, items |-> items, your_weights |-> CandWeights(m, wk, BaseWeights(m, r)),
     cr_given |-> ck # "absent", your_cr |-> CandCR(ck, BaseCR(r)), your_lambda |-> Num(0)]

Item(m, items, wk, ck) == ItemAround(m, items, wk, ck, validate_with_reference(m))

NoItem == [matrix |-> <<>>, items |-> <<>>, your_weights |-> <<>>,
           cr_given |-> FALSE, your_cr |-> Num(0), your_lambda |-> Num(0)]

ValidateRequests ==
    {[endpoint |-> "validate", data |-> TRUE, item |-> Item(m, Labels(Len(m)), wk, ck),
      matrices |-> <<>>] : m \in SvcMatrices, wk \in WeightKinds, ck \in CRKinds}
    \cup {[endpoint |-> "validate", data |-> TRUE, item |-> Item(m, <<>>, "exact", "exact"),
           matrices |-> <<>>] : m \in SvcMatrices}
    \cup {[endpoint |-> "validate", data |-> FALSE, item |-> NoItem, matrices |-> <<>>]}

BatchItems ==
    {Item(m, Labels(Len(m)), wk, ck) :
        m \in BatchMatrices, wk \in {"exact", "off"}, ck \in {"absent", "exact"}}

\* item.get('name', 'Unknown'): the items of a batch are named by position
Named(items) == [i \in DOMAIN items |-> [name |-> i] @@ items[i]]

BatchesOfLen(k) == {Named(b) : b \in [1..k -> BatchItems]}

BatchRequests ==
    {[endpoint |-> "validate-batch", data |-> TRUE, item |-> NoItem, matrices |-> b] :
        b \in UNION {BatchesOfLen(k) : k \in 0..MaxBatch}}
    \cup {[endpoint |-> "validate-batch", data |-> FALSE, item |-> NoItem, matrices |-> <<>>]}

\* What the /validate handler does with each request, for either outcome
\* of the final jsonify(response); each request is evaluated once
ValidateOutcomes ==
    {[req |-> r, out |-> validate(r.item @@ [data |-> r.data], jsonify_ok)] :
        r \in ValidateRequests, jsonify_ok \in BOOLEAN}

\* What one pass of the /validate-batch loop does with each named item
BatchOutcomes ==
    {[item |-> it, out |-> BatchItemOutcome(it)] :
        it \in {[name |-> i] @@ b : b \in BatchItems, i \in 1..MaxBatch}}

Init ==
    /\ pc = "idle"
    /\ req = None /\ resp = None /\ calls = {} /\ verdict = None
    /\ idx = 0 /\ results = <<>> /\ all_valid = TRUE
    /\ arg = None /\ ret = None /\ v = <<>> /\ v_new = <<>> /\ iters = 0

\* POST /validate: the whole handler
Validate ==
    /\ pc = "idle"
    /\ \E o \in ValidateOutcomes :
          /\ req' = o.req
          /\ resp' = o.out.resp
          /\ calls' = o.out.calls
          /\ verdict' = o.out.verdict
    /\ pc' = "done"
    /\ UNCHANGED <<idx, results, all_valid>>
    /\ UNCHANGED coreVars

\* POST /validate-batch, up to the loop: data.get on a missing body raises
\* AttributeError, which the except clause turns into a 500
BatchStart ==
    /\ pc = "idle"
    /\ \E r \in BatchRequests :
          /\ req' = r
          /\ IF r.data
                THEN /\ pc' = "batch"
                     /\ resp' = resp
                ELSE /\ pc' = "done"
                     /\ resp' = [status |-> 500, body |-> ErrorBody("AttributeError")]
    /\ results' = <<>>
    /\ all_valid' = TRUE
    /\ idx' = 1
    /\ UNCHANGED <<calls, verdict>>
    /\ UNCHANGED coreVars

\* one pass of `for item in matrices` that reaches results.append
BatchIter ==
    /\ pc = "batch" /\ idx <= Len(req.matrices)
    /\ \E o \in BatchOutcomes :
          /\ o.item = req.matrices[idx]
          /\ o.out.raised = "none"
          /\ results' = Append(results, o.out.row)
          /\ all_valid' = NextAllValid(all_valid, o.out.row.is_valid)
          /\ calls' = calls \cup o.out.entered
    /\ idx' = idx + 1
    /\ UNCHANGED <<pc, req, resp, verdict>>
    /\ UNCHANGED coreVars

\* a pass that raises: the except clause around the whole loop answers 500
BatchAbort ==
    /\ pc = "batch" /\ idx <= Len(req.matrices)
    /\ \E o \in BatchOutcomes :
          /\ o.item = req.matrices[idx]
          /\ o.out.raised # "none"
          /\ resp' = [status |-> 500, body |-> ErrorBody(o.out.raised)]
          /\ calls' = calls \cup o.out.entered
    /\ pc' = "done"
    /\ UNCHANGED <<req, verdict, idx, results, all_valid>>
    /\ UNCHANGED coreVars

\* after the loop: return jsonify({...})
BatchReturn ==
    /\ pc = "batch" /\ idx > Len(req.matrices)
    /\ resp' = [status |-> 200,
                body |-> [success |-> TRUE, all_valid |-> all_valid,
                          total |-> Len(results), passed |-> Passed(results),
                          failed |-> Failed(results), results |-> results]]
    /\ pc' = "done"
    /\ UNCHANGED <<req, calls, verdict, idx, results, all_valid>>
    /\ UNCHANGED coreVars

Next == Validate \/ BatchStart \/ BatchIter \/ BatchAbort \/ BatchReturn

Spec == Init /\ [][Next]_vars

---------------------------------------------------------------------------
(* Properties                                                              *)

\* |a - b| < 0.001 for two doubles, stated on the fixed-point values
Within(a, b) == IsFinite(a) /\ IsFinite(b) /\ Abs(a.v - b.v) * TOL_DEN < Scale

\* max |a_i - b_i| < 1e-6: at a resolution of 1/Scale, no entry differs
Close(a, b) ==
    \A i \in DOMAIN a :
        IsFinite(a[i]) /\ IsFinite(b[i]) /\ Abs(a[i].v - b[i].v) * (PM_TOL_DEN \div Scale) < 1

ValidateDone == pc = "done" /\ req.endpoint = "validate"

BatchDone == pc = "done" /\ req.endpoint = "validate-batch"

HasVerdict == "is_valid" \in DOMAIN verdict

HasNonPositive(matrix) ==
    \E i \in DOMAIN matrix : \E j \in DOMAIN matrix[i] : matrix[i][j] <= 0

\* a square matrix of positive entries with one label and one candidate
\* weight per row
WellFormed(it) ==
    /\ Len(it.matrix) > 0
    /\ Aligned(it.matrix, Len(it.matrix))
    /\ ~HasNonPositive(it.matrix)
    /\ Len(it.items) = Len(it.matrix)
    /\ Len(it.your_weights) = Len(it.matrix)

\* C1: for every /validate request that supplies candidate weights and a
\* candidate CR, weights_valid holds exactly when every |candidate_i -
\* reference_i| is below 0.001, cr_valid exactly when |candidateCR -
\* referenceCR| is below 0.001, and is_valid exactly when both hold; also
\* for a candidate CR of 0.  Stated on the well-formed requests, where the
\* elementwise maximum is defined.
C1_VerdictIsThresholdTest ==
    (ValidateDone /\ HasVerdict /\ req.item.cr_given /\ WellFormed(req.item))
    => /\ verdict.weights_valid <=>
             \A i \in DOMAIN verdict.sdk_weights :
                 Within(req.item.your_weights[i], verdict.sdk_weights[i])
       /\ verdict.cr_valid <=> Within(req.item.your_cr, verdict.sdk_cr)
       /\ verdict.is_valid <=> (verdict.weights_valid /\ verdict.cr_valid)

\* C2: in /validate-batch a matrix that makes the numeric core raise does
\* not abort the batch: every other matrix of the request is validated and
\* its result is in the response.
C2_BadMatrixDoesNotAbortBatch ==
    (BatchDone /\ req.data)
    => \A i \in DOMAIN req.matrices :
          BatchItemOutcome(req.matrices[i]).raised = "none"
          => /\ resp.status = 200
             /\ \E j \in DOMAIN resp.body.results : resp.body.results[j].name = i

\* empty matrix, empty item list, non-square matrix, or a candidate vector
\* whose length is not the matrix size
Degenerate(it) ==
    \/ Len(it.matrix) = 0
    \/ Len(it.items) = 0
    \/ ~Aligned(it.matrix, Len(it.matrix))
    \/ Len(it.your_weights) > 0 /\ Len(it.your_weights) # Len(it.matrix)

\* C3: every structurally degenerate /validate request is rejected with a
\* client error before any numeric-core function or the weight comparison
\* runs; a candidate vector of the wrong length never gets a verdict.
C3_DegenerateRejectedBeforeCore ==
    (ValidateDone /\ req.data /\ Degenerate(req.item))
    => /\ resp.status = 400
       /\ calls = {}
       /\ ~HasVerdict

\* C4: each matrix of a batch gets the is_valid verdict, the max weight
\* difference and the CR difference that a standalone /validate request
\* with the same matrix, items, candidate weights and candidate CR gets.
C4_BatchEqualsSingle ==
    (pc \in {"batch", "done"} /\ req.endpoint = "validate-batch")
    => \A j \in DOMAIN results :
          LET single == validate(req.matrices[j] @@ [data |-> TRUE], TRUE).verdict
          IN  /\ "is_valid" \in DOMAIN single
              /\ results[j].is_valid = single.is_valid
              /\ results[j].max_weight_diff = single.max_diff_weights
              /\ results[j].cr_diff = single.diff_cr

PMEnded == pc \in {"pm_done", "pm_raised"}

\* Progress of a call: passes completed, then the break, then the return
PMRank == 3 * iters + (CASE pc = "pm_loop" -> 0 [] pc = "pm_break" -> 1 [] OTHER -> 2)

\* C5: power_method always terminates (every step moves the call forward,
\* a call that has not ended has a step whose guard holds, and there are at
\* most max_iter passes); it stops at the first pass whose change is below the tolerance
\* and otherwise after max_iter passes, returns the last computed iterate,
\* and raises nothing because of non-convergence (only np.dot on a
\* malformed shape, before any pass).
C5_PowerMethodTerminates ==
    /\ [](iters <= MAX_ITER /\ PMRank <= 3 * MAX_ITER + 2)
    /\ [](PMEnded \/ PMRaiseGuard \/ PMPassGuard \/ PMReturnGuard)
    /\ [][PMRank' > PMRank]_vars
    /\ [][(pc' = "pm_loop" /\ iters' = iters + 1) => ~Close(v_new', v)]_vars
    /\ [](pc = "pm_done"
            => /\ ret.raised = "none"
               /\ ret.weights = v_new
               /\ iters >= 1
               /\ Close(v_new, v) \/ iters = MAX_ITER)
    /\ [](pc = "pm_raised"
            => /\ iters = 0
               /\ Len(arg.matrix) = 0 \/ ~Aligned(arg.matrix, Len(arg.matrix)))

C5_Witness ==
    /\ pc = "pm_done" /\ iters = MAX_ITER
    /\ ret.raised = "none"
    /\ \A i \in DOMAIN ret.weights : IsFinite(ret.weights[i])

\* C6: geometric_mean_method fails with an InvalidMatrix error whenever an
\* entry of the matrix is zero or negative; it never returns weights then.
C6_NonPositiveRejected ==
    (pc = "gm_done" /\ HasNonPositive(arg.matrix)) => ret.raised = "InvalidMatrix"

NonZero(weights) == \A i \in DOMAIN weights : weights[i] # Num(0)

\* C7: for n <= 2 and non-zero weights calculate_consistency returns ci = 0
\* and cr = 0 whatever the matrix, without reading the Random Index and
\* without dividing by n - 1 or RI; for [[1]] with weights [1] lambda_max
\* is 1.
C7_SmallMatrixConsistent ==
    (pc = "cc_done" /\ Len(arg.matrix) <= 2 /\ NonZero(arg.weights))
    => /\ ret.raised = "none"
       /\ ret.ci = Num(0) /\ ret.cr = Num(0)
       /\ ~ret.ri_read
       /\ ret.divisors \cap {"n-1", "ri"} = {}
       /\ (arg.matrix = << <<MScale>> >> /\ arg.weights = << Num(Scale) >>)
          => ret.lambda_max = Num(Scale)

C7_Witness ==
    /\ pc = "cc_done" /\ Len(arg.matrix) = 2 /\ NonZero(arg.weights)
    /\ IsFinite(ret.lambda_max) /\ ret.lambda_max.v > 2 * Scale
    /\ ret.ci = Num(0) /\ ret.cr = Num(0)

\* C8: a candidate equal to the reference (weights and CR) always gets a
\* maximum weight difference of 0 and is_valid = true.
C8_SelfComparisonValid ==
    (ValidateDone /\ HasVerdict
       /\ req.item.your_weights = verdict.sdk_weights
       /\ req.item.your_cr = verdict.sdk_cr)
    => /\ verdict.max_diff_weights = Num(0)
       /\ verdict.is_valid

C8_Witness ==
    /\ ValidateDone /\ HasVerdict
    /\ Len(verdict.sdk_weights) = 3
    /\ req.item.your_weights = verdict.sdk_weights
    /\ req.item.your_cr = verdict.sdk_cr /\ verdict.sdk_cr.v > TolUnits
    /\ verdict.is_valid

\* C10: in every successful /validate-batch response total is the number
\* of matrices of the request, total = passed + failed, passed counts the
\* results with is_valid, and all_valid holds exactly when failed = 0.
C10_TalliesConsistent ==
    (BatchDone /\ resp.status = 200)
    => /\ resp.body.total = Len(req.matrices)
       /\ resp.body.total = resp.body.passed + resp.body.failed
       /\ resp.body.passed =
             Cardinality({j \in DOMAIN resp.body.results : resp.body.results[j].is_valid})
       /\ resp.body.all_valid <=> (resp.body.failed = 0)

C10_Witness ==
    /\ BatchDone /\ resp.status = 200
    /\ resp.body.total = 2 /\ resp.body.passed = 1 /\ resp.body.failed = 1
    /\ resp.body.results[2].is_valid
    /\ ~resp.body.all_valid

====
